---- MODULE Spec2Model ----
(***************************************************************************)
(* Cloud Architect AI (app.py): the POST /generate request path.           *)
(*                                                                         *)
(* A Python str is a sequence of one-character strings, so that strip(),   *)
(* lower(), len() and the substring test `in` are computed as Python       *)
(* computes them.  A character outside printable ASCII is written as the   *)
(* one element "U+XXXX".  Python's None is the value None below.           *)
(***************************************************************************)
EXTENDS Integers, Sequences, FiniteSets, TLC

\* ------------------------------------------------------------------ bounds

\* Number of requests that may be in flight at once under SpecConc.
NumRequests == 2

Requests == 1..NumRequests

\* ------------------------------------------------------- program constants

\* _generate_with_retry(prompt, max_retries=2)
max_retries == 2

\* len(project_description) < 10
MIN_LENGTH == 10

\* len(project_description) > 5000
MAX_LENGTH == 5000

\* ------------------------------------------------------------ Python values

None == <<"None">>

\* str.lower() on one character
LowerChar(c) ==
    CASE c = "A" -> "a" [] c = "B" -> "b" [] c = "C" -> "c" [] c = "D" -> "d"
      [] c = "E" -> "e" [] c = "F" -> "f" [] c = "G" -> "g" [] c = "H" -> "h"
      [] c = "I" -> "i" [] c = "J" -> "j" [] c = "K" -> "k" [] c = "L" -> "l"
      [] c = "M" -> "m" [] c = "N" -> "n" [] c = "O" -> "o" [] c = "P" -> "p"
      [] c = "Q" -> "q" [] c = "R" -> "r" [] c = "S" -> "s" [] c = "T" -> "t"
      [] c = "U" -> "u" [] c = "V" -> "v" [] c = "W" -> "w" [] c = "X" -> "x"
      [] c = "Y" -> "y" [] c = "Z" -> "z" [] OTHER -> c

\* str.lower()
Lower(s) == [i \in 1..Len(s) |-> LowerChar(s[i])]

\* `sub in s` for two str
Contains(s, sub) ==
    \E i \in 0..(Len(s) - Len(sub)) : \A j \in 1..Len(sub) : s[i + j] = sub[j]

\* the characters str.strip() removes
IsSpace(c) == c \in {" ", "\t", "\n", "\r", "\f", "U+000B"}

\* str.strip()
Strip(s) ==
    IF \A i \in 1..Len(s) : IsSpace(s[i])
    THEN << >>
    ELSE LET first == CHOOSE i \in 1..Len(s) :
                          ~IsSpace(s[i]) /\ \A j \in 1..(i - 1) : IsSpace(s[j])
             last  == CHOOSE i \in 1..Len(s) :
                          ~IsSpace(s[i]) /\ \A j \in (i + 1)..Len(s) : IsSpace(s[j])
         IN  SubSeq(s, first, last)

\* 'x' * n
Repeat(c, n) == [i \in 1..n |-> c]

\* ---------------------------------------------------------- string literals

STR_API_KEY ==
    <<"A","P","I"," ","k","e","y">>
STR_QUOTA ==
    <<"q","u","o","t","a">>
STR_RATE ==
    <<"r","a","t","e">>
STR_429 ==
    <<"4","2","9">>
STR_TOO_MANY ==
    <<"t","o","o"," ","m","a","n","y"," ","r","e","q","u","e","s","t","s">>
STR_PROMPT ==
    <<"p","r","o","m","p","t">>

MSG_NOT_JSON ==
    <<"R","e","q","u","e","s","t"," ","m","u","s","t"," ","b","e"," ","J","S","O","N"," ","f",
      "o","r","m","a","t">>
MSG_MISSING_PROMPT ==
    <<"M","i","s","s","i","n","g"," ","r","e","q","u","i","r","e","d"," ","f","i","e","l","d",
      ":"," ","p","r","o","m","p","t">>
MSG_EMPTY ==
    <<"P","r","o","j","e","c","t"," ","d","e","s","c","r","i","p","t","i","o","n"," ","c","a",
      "n","n","o","t"," ","b","e"," ","e","m","p","t","y">>
MSG_TOO_SHORT ==
    <<"P","r","o","j","e","c","t"," ","d","e","s","c","r","i","p","t","i","o","n"," ","m","u",
      "s","t"," ","b","e"," ","a","t"," ","l","e","a","s","t"," ","1","0"," ","c","h","a","r",
      "a","c","t","e","r","s"," ","l","o","n","g">>
MSG_TOO_LONG ==
    <<"P","r","o","j","e","c","t"," ","d","e","s","c","r","i","p","t","i","o","n"," ","m","u",
      "s","t"," ","b","e"," ","l","e","s","s"," ","t","h","a","n"," ","5","0","0","0"," ","c",
      "h","a","r","a","c","t","e","r","s">>
MSG_CONFIG ==
    <<"S","e","r","v","i","c","e"," ","c","o","n","f","i","g","u","r","a","t","i","o","n"," ",
      "e","r","r","o","r","."," ","P","l","e","a","s","e"," ","t","r","y"," ","a","g","a","i",
      "n"," ","l","a","t","e","r",".">>
MSG_UNAVAILABLE ==
    <<"S","e","r","v","i","c","e"," ","t","e","m","p","o","r","a","r","i","l","y"," ","u","n",
      "a","v","a","i","l","a","b","l","e"," ","d","u","e"," ","t","o"," ","h","i","g","h"," ",
      "d","e","m","a","n","d","."," ","P","l","e","a","s","e"," ","t","r","y"," ","a","g","a",
      "i","n"," ","i","n"," ","a"," ","f","e","w"," ","m","i","n","u","t","e","s",".">>
MSG_UNABLE ==
    <<"U","n","a","b","l","e"," ","t","o"," ","g","e","n","e","r","a","t","e"," ","a","r","c",
      "h","i","t","e","c","t","u","r","e"," ","r","e","c","o","m","m","e","n","d","a","t","i",
      "o","n","."," ","P","l","e","a","s","e"," ","t","r","y"," ","a","g","a","i","n",".">>
MSG_UNEXPECTED ==
    <<"A","n"," ","u","n","e","x","p","e","c","t","e","d"," ","e","r","r","o","r"," ","o","c",
      "c","u","r","r","e","d","."," ","P","l","e","a","s","e"," ","t","r","y"," ","a","g","a",
      "i","n",".">>

ERR_NOT_CONFIGURED ==
    <<"G","e","m","i","n","i"," ","A","P","I"," ","i","s"," ","n","o","t"," ","c","o","n","f",
      "i","g","u","r","e","d","."," ","P","l","e","a","s","e"," ","c","h","e","c","k"," ","y",
      "o","u","r"," ","A","P","I"," ","k","e","y",".">>
ERR_NO_RESPONSE ==
    <<"N","o"," ","r","e","s","p","o","n","s","e"," ","g","e","n","e","r","a","t","e","d"," ",
      "f","r","o","m"," ","G","e","m","i","n","i"," ","A","P","I",".">>
ERR_PREFIX ==
    <<"E","r","r","o","r"," ","g","e","n","e","r","a","t","i","n","g"," ","a","r","c","h","i",
      "t","e","c","t","u","r","e"," ","r","e","c","o","m","m","e","n","d","a","t","i","o","n",
      ":"," ">>
ERR_UNKNOWN ==
    <<"U","n","k","n","o","w","n"," ","e","r","r","o","r">>

demo_response ==
    <<"\n","#"," ","G","o","o","g","l","e"," ","C","l","o","u","d"," ","A","r","c","h","i","t",
      "e","c","t","u","r","e"," ","R","e","c","o","m","m","e","n","d","a","t","i","o","n","\n",
      "\n","#","#"," ","R","e","c","o","m","m","e","n","d","e","d"," ","S","e","r","v","i","c",
      "e","s","\n","-"," ","*","*","C","l","o","u","d"," ","R","u","n","*","*",":"," ","S","e",
      "r","v","e","r","l","e","s","s"," ","c","o","n","t","a","i","n","e","r"," ","p","l","a",
      "t","f","o","r","m"," ","f","o","r"," ","y","o","u","r"," ","S","a","a","S"," ","a","p",
      "p","l","i","c","a","t","i","o","n","\n","-"," ","*","*","C","l","o","u","d"," ","S","Q",
      "L"," ","(","P","o","s","t","g","r","e","S","Q","L",")","*","*",":"," ","M","a","n","a",
      "g","e","d"," ","r","e","l","a","t","i","o","n","a","l"," ","d","a","t","a","b","a","s",
      "e"," ","w","i","t","h"," ","h","i","g","h"," ","a","v","a","i","l","a","b","i","l","i",
      "t","y","\n","-"," ","*","*","C","l","o","u","d"," ","S","t","o","r","a","g","e","*","*",
      ":"," ","O","b","j","e","c","t"," ","s","t","o","r","a","g","e"," ","f","o","r"," ","f",
      "i","l","e"," ","u","p","l","o","a","d","s"," ","a","n","d"," ","s","t","a","t","i","c",
      " ","a","s","s","e","t","s","\n","-"," ","*","*","C","l","o","u","d"," ","P","u","b","/",
      "S","u","b","*","*",":"," ","M","e","s","s","a","g","e"," ","q","u","e","u","e"," ","f",
      "o","r"," ","e","m","a","i","l"," ","n","o","t","i","f","i","c","a","t","i","o","n","s",
      " ","a","n","d"," ","a","s","y","n","c"," ","t","a","s","k","s","\n","-"," ","*","*","C",
      "l","o","u","d"," ","C","D","N","*","*",":"," ","C","o","n","t","e","n","t"," ","d","e",
      "l","i","v","e","r","y"," ","n","e","t","w","o","r","k"," ","f","o","r"," ","g","l","o",
      "b","a","l"," ","p","e","r","f","o","r","m","a","n","c","e","\n","-"," ","*","*","I","d",
      "e","n","t","i","t","y"," ","P","l","a","t","f","o","r","m","*","*",":"," ","A","u","t",
      "h","e","n","t","i","c","a","t","i","o","n"," ","a","n","d"," ","u","s","e","r"," ","m",
      "a","n","a","g","e","m","e","n","t"," ","w","i","t","h"," ","R","B","A","C","\n","\n","#",
      "#"," ","A","r","c","h","i","t","e","c","t","u","r","e"," ","O","v","e","r","v","i","e",
      "w","\n","U+0060","U+0060","U+0060","\n","I","n","t","e","r","n","e","t"," ","U+2192"," ",
      "C","l","o","u","d"," ","C","D","N"," ","U+2192"," ","C","l","o","u","d"," ","L","o","a",
      "d"," ","B","a","l","a","n","c","e","r","\n"," "," "," "," "," "," "," "," "," "," "," ",
      " "," "," "," "," "," "," "," "," "," "," "," "," "," "," ","U+2193","\n"," "," "," "," ",
      " "," "," "," "," "," "," "," "," "," "," "," "," "," "," "," ","C","l","o","u","d"," ",
      "R","u","n"," ","(","A","u","t","o","-","s","c","a","l","i","n","g",")","\n"," "," "," ",
      " "," "," "," "," "," "," "," "," "," "," "," "," "," "," "," "," "," "," "," "," "," ",
      " ","U+2193","\n"," "," "," "," "," "," "," "," ","U+250C","U+2500","U+2500","U+2500",
      "U+2500","U+2500","U+2500","U+2500","U+2500","U+2500","U+2500","U+2500","U+2500","U+2500",
      "U+2500","U+2500","U+2500","U+2500","U+253C","U+2500","U+2500","U+2500","U+2500","U+2500",
      "U+2500","U+2500","U+2500","U+2500","U+2500","U+2500","U+2500","U+2500","U+2500","U+2500",
      "U+2500","U+2500","U+2510","\n"," "," "," "," "," "," "," "," ","U+2193"," "," "," "," ",
      " "," "," "," "," "," "," "," "," "," "," "," "," ","U+2193"," "," "," "," "," "," "," ",
      " "," "," "," "," "," "," "," "," "," ","U+2193","\n"," "," "," "," ","C","l","o","u","d",
      " ","S","Q","L"," "," "," "," "," "," "," ","C","l","o","u","d"," ","S","t","o","r","a",
      "g","e"," "," "," "," "," "," ","P","u","b","/","S","u","b","\n"," "," "," "," ","(","P",
      "r","i","m","a","r","y"," ","D","B",")"," "," "," "," ","(","F","i","l","e"," ","S","t",
      "o","r","a","g","e",")"," "," "," ","(","A","s","y","n","c"," ","T","a","s","k","s",")",
      "\n","U+0060","U+0060","U+0060","\n","\n","#","#"," ","S","c","a","l","a","b","i","l","i",
      "t","y"," ","C","o","n","s","i","d","e","r","a","t","i","o","n","s","\n","1","."," ","*",
      "*","A","u","t","o","-","s","c","a","l","i","n","g","*","*",":"," ","C","l","o","u","d",
      " ","R","u","n"," ","s","c","a","l","e","s"," ","0","U+2192","N"," ","b","a","s","e","d",
      " ","o","n"," ","t","r","a","f","f","i","c"," ","(","h","a","n","d","l","e","s"," ","w",
      "o","r","k","-","h","o","u","r"," ","s","p","i","k","e","s",")","\n","2","."," ","*","*",
      "R","e","a","d"," ","r","e","p","l","i","c","a","s","*","*",":"," ","A","d","d"," ","C",
      "l","o","u","d"," ","S","Q","L"," ","r","e","a","d"," ","r","e","p","l","i","c","a","s",
      " ","f","o","r"," ","q","u","e","r","y"," ","p","e","r","f","o","r","m","a","n","c","e",
      "\n","3","."," ","*","*","C","o","n","n","e","c","t","i","o","n"," ","p","o","o","l","i",
      "n","g","*","*",":"," ","U","s","e"," ","C","l","o","u","d"," ","S","Q","L"," ","P","r",
      "o","x","y"," ","w","i","t","h"," ","c","o","n","n","e","c","t","i","o","n"," ","l","i",
      "m","i","t","s","\n","4","."," ","*","*","C","a","c","h","i","n","g","*","*",":"," ","I",
      "m","p","l","e","m","e","n","t"," ","C","l","o","u","d"," ","M","e","m","o","r","y","s",
      "t","o","r","e"," ","(","R","e","d","i","s",")"," ","f","o","r"," ","s","e","s","s","i",
      "o","n","/","d","a","t","a"," ","c","a","c","h","i","n","g","\n","5","."," ","*","*","M",
      "u","l","t","i","-","r","e","g","i","o","n","*","*",":"," ","D","e","p","l","o","y"," ",
      "i","n"," ","m","u","l","t","i","p","l","e"," ","r","e","g","i","o","n","s"," ","f","o",
      "r"," ","g","l","o","b","a","l"," ","u","s","e","r","s","\n","\n","#","#"," ","C","o","s",
      "t"," ","O","p","t","i","m","i","z","a","t","i","o","n","\n","1","."," ","*","*","P","a",
      "y","-","p","e","r","-","u","s","e","*","*",":"," ","C","l","o","u","d"," ","R","u","n",
      " ","c","h","a","r","g","e","s"," ","o","n","l","y"," ","f","o","r"," ","a","c","t","u",
      "a","l"," ","r","e","q","u","e","s","t"," ","t","i","m","e","\n","2","."," ","*","*","R",
      "i","g","h","t","-","s","i","z","i","n","g","*","*",":"," ","S","t","a","r","t"," ","w",
      "i","t","h"," ","m","i","n"," ","i","n","s","t","a","n","c","e","s"," ","="," ","0",",",
      " ","s","c","a","l","e"," ","b","a","s","e","d"," ","o","n"," ","a","c","t","u","a","l",
      " ","l","o","a","d","\n","3","."," ","*","*","S","t","o","r","a","g","e"," ","l","i","f",
      "e","c","y","c","l","e","*","*",":"," ","M","o","v","e"," ","o","l","d"," ","f","i","l",
      "e","s"," ","t","o"," ","C","o","l","d","l","i","n","e","/","A","r","c","h","i","v","e",
      " ","s","t","o","r","a","g","e"," ","c","l","a","s","s","e","s","\n","4","."," ","*","*",
      "C","o","m","m","i","t","t","e","d"," ","u","s","e","*","*",":"," ","P","u","r","c","h",
      "a","s","e"," ","1","-","y","e","a","r"," ","c","o","m","m","i","t","s"," ","f","o","r",
      " ","p","r","e","d","i","c","t","a","b","l","e"," ","w","o","r","k","l","o","a","d","s",
      "\n","5","."," ","*","*","B","u","d","g","e","t"," ","a","l","e","r","t","s","*","*",":",
      " ","S","e","t"," ","u","p"," ","b","i","l","l","i","n","g"," ","a","l","e","r","t","s",
      " ","a","t"," ","5","0","%",","," ","8","0","%",","," ","1","0","0","%"," ","t","h","r",
      "e","s","h","o","l","d","s","\n","\n","#","#"," ","S","e","c","u","r","i","t","y"," ","R",
      "e","c","o","m","m","e","n","d","a","t","i","o","n","s","\n","1","."," ","*","*","V","P",
      "C","*","*",":"," ","R","u","n"," ","C","l","o","u","d"," ","R","u","n"," ","i","n"," ",
      "V","P","C"," ","w","i","t","h"," ","p","r","i","v","a","t","e"," ","C","l","o","u","d",
      " ","S","Q","L"," ","c","o","n","n","e","c","t","i","o","n","\n","2","."," ","*","*","I",
      "A","M","*","*",":"," ","U","s","e"," ","s","e","r","v","i","c","e"," ","a","c","c","o",
      "u","n","t","s"," ","w","i","t","h"," ","l","e","a","s","t","-","p","r","i","v","i","l",
      "e","g","e"," ","p","r","i","n","c","i","p","l","e","s","\n","3","."," ","*","*","I","d",
      "e","n","t","i","t","y"," ","P","l","a","t","f","o","r","m","*","*",":"," ","B","u","i",
      "l","t","-","i","n"," ","G","D","P","R"," ","c","o","m","p","l","i","a","n","c","e"," ",
      "f","e","a","t","u","r","e","s","\n","4","."," ","*","*","E","n","c","r","y","p","t","i",
      "o","n","*","*",":"," ","E","n","a","b","l","e"," ","c","u","s","t","o","m","e","r","-",
      "m","a","n","a","g","e","d"," ","e","n","c","r","y","p","t","i","o","n"," ","k","e","y",
      "s"," ","(","C","M","E","K",")","\n","5","."," ","*","*","A","u","d","i","t"," ","l","o",
      "g","s","*","*",":"," ","E","n","a","b","l","e"," ","C","l","o","u","d"," ","A","u","d",
      "i","t"," ","L","o","g","s"," ","f","o","r"," ","c","o","m","p","l","i","a","n","c","e",
      " ","t","r","a","c","k","i","n","g","\n","6","."," ","*","*","W","A","F","*","*",":"," ",
      "U","s","e"," ","C","l","o","u","d"," ","A","r","m","o","r"," ","f","o","r"," ","D","D",
      "o","S"," ","p","r","o","t","e","c","t","i","o","n"," ","a","n","d"," ","r","a","t","e",
      " ","l","i","m","i","t","i","n","g","\n","\n","#","#"," ","D","e","p","l","o","y","m","e",
      "n","t"," ","S","t","r","a","t","e","g","y","\n","1","."," ","*","*","C","I","/","C","D",
      " ","P","i","p","e","l","i","n","e","*","*",":","\n"," "," "," ","-"," ","C","l","o","u",
      "d"," ","B","u","i","l","d"," ","f","o","r"," ","a","u","t","o","m","a","t","e","d"," ",
      "b","u","i","l","d","s"," ","o","n"," ","g","i","t"," ","p","u","s","h","\n"," "," "," ",
      "-"," ","S","e","p","a","r","a","t","e"," ","d","e","v","/","s","t","a","g","i","n","g",
      "/","p","r","o","d"," ","e","n","v","i","r","o","n","m","e","n","t","s","\n"," "," "," ",
      "-"," ","B","l","u","e","-","g","r","e","e","n"," ","d","e","p","l","o","y","m","e","n",
      "t","s"," ","w","i","t","h"," ","t","r","a","f","f","i","c"," ","s","p","l","i","t","t",
      "i","n","g","\n"," "," "," ","\n","2","."," ","*","*","I","n","f","r","a","s","t","r","u",
      "c","t","u","r","e"," ","a","s"," ","C","o","d","e","*","*",":","\n"," "," "," ","-"," ",
      "T","e","r","r","a","f","o","r","m"," ","o","r"," ","C","l","o","u","d"," ","D","e","p",
      "l","o","y","m","e","n","t"," ","M","a","n","a","g","e","r","\n"," "," "," ","-"," ","V",
      "e","r","s","i","o","n"," ","c","o","n","t","r","o","l"," ","a","l","l"," ","i","n","f",
      "r","a","s","t","r","u","c","t","u","r","e"," ","c","o","n","f","i","g","s","\n","\n","3",
      "."," ","*","*","M","o","n","i","t","o","r","i","n","g","*","*",":","\n"," "," "," ","-",
      " ","C","l","o","u","d"," ","M","o","n","i","t","o","r","i","n","g"," ","f","o","r"," ",
      "m","e","t","r","i","c","s"," ","a","n","d"," ","a","l","e","r","t","s","\n"," "," "," ",
      "-"," ","C","l","o","u","d"," ","L","o","g","g","i","n","g"," ","f","o","r"," ","c","e",
      "n","t","r","a","l","i","z","e","d"," ","l","o","g","s","\n"," "," "," ","-"," ","E","r",
      "r","o","r"," ","R","e","p","o","r","t","i","n","g"," ","f","o","r"," ","e","x","c","e",
      "p","t","i","o","n"," ","t","r","a","c","k","i","n","g","\n","\n","#","#"," ","G","D","P",
      "R"," ","C","o","m","p","l","i","a","n","c","e","\n","-"," ","D","a","t","a"," ","r","e",
      "s","i","d","e","n","c","y",":"," ","D","e","p","l","o","y"," ","i","n"," ","E","U"," ",
      "r","e","g","i","o","n","s"," ","(","e","u","r","o","p","e","-","w","e","s","t","1",")",
      "\n","-"," ","I","d","e","n","t","i","t","y"," ","P","l","a","t","f","o","r","m",":"," ",
      "B","u","i","l","t","-","i","n"," ","c","o","n","s","e","n","t"," ","m","a","n","a","g",
      "e","m","e","n","t","\n","-"," ","C","l","o","u","d"," ","D","L","P",":"," ","A","u","t",
      "o","m","a","t","i","c"," ","P","I","I"," ","d","e","t","e","c","t","i","o","n"," ","a",
      "n","d"," ","r","e","d","a","c","t","i","o","n","\n","-"," ","A","u","d","i","t"," ","l",
      "o","g","s",":"," ","4","0","0","-","d","a","y"," ","r","e","t","e","n","t","i","o","n",
      " ","f","o","r"," ","c","o","m","p","l","i","a","n","c","e","\n","\n","*","*","E","s","t",
      "i","m","a","t","e","d"," ","M","o","n","t","h","l","y"," ","C","o","s","t","*","*",":",
      " ","$","5","0","0","-","2","0","0","0"," ","f","o","r"," ","1","0","0","k"," ","M","A",
      "U"," ","(","v","a","r","i","e","s"," ","w","i","t","h"," ","a","c","t","u","a","l"," ",
      "u","s","a","g","e"," ","p","a","t","t","e","r","n","s",")","\n">>

\* ------------------------------------------------------------ request bodies

\* Parsed JSON values, as request.get_json() returns them.
JStr(s)    == [type |-> "string", chars |-> s,     num |-> 0, fields |-> {}]
JNum(n)    == [type |-> "number", chars |-> << >>, num |-> n, fields |-> {}]
JNull      == [type |-> "null",   chars |-> << >>, num |-> 0, fields |-> {}]
\* a JSON object: fields is a set of <<key, value>>
JObj(fs)   == [type |-> "object", chars |-> << >>, num |-> 0, fields |-> fs]
\* a body that is not JSON text: get_json() raises BadRequest
Malformed  == [type |-> "malformed", chars |-> << >>, num |-> 0, fields |-> {}]

\* A request: is_json is request.is_json (the declared content type), data the body.
Body(isJson, d) == [is_json |-> isJson, data |-> d]
PromptBody(s) == Body(TRUE, JObj({<<"prompt", JStr(s)>>}))

TXT_SAMPLE ==
    <<"A"," ","w","e","b"," ","a","p","p"," ","f","o","r"," ","c","u","s","t","o","m","e","r",
      " ","o","r","d","e","r","s"," ","w","i","t","h"," ","a","u","t","h"," ","a","n","d"," ",
      "p","a","y","m","e","n","t","s",".">>
TXT_SHORT ==
    <<"s","h","o","r","t">>
TXT_BLANK ==
    <<" ","\t","\n"," ">>
TXT_NINE ==
    <<"\t"," ","1","2","3","4","5","6","7","8","9","\n">>
TXT_TEN ==
    <<" "," ","0","1","2","3","4","5","6","7","8","9"," ","\n">>

\* The requests a client sends.
Bodies ==
    { Body(FALSE, Malformed),
      Body(FALSE, JObj({<<"prompt", JStr(TXT_SAMPLE)>>})),
      Body(TRUE, Malformed),
      Body(TRUE, JNull),
      Body(TRUE, JNum(5)),
      Body(TRUE, JStr(STR_PROMPT)),
      Body(TRUE, JObj({})),
      Body(TRUE, JObj({<<"description", JStr(TXT_SAMPLE)>>})),
      Body(TRUE, JObj({<<"prompt", JNum(5)>>})),
      Body(TRUE, JObj({<<"prompt", JNull>>})),
      PromptBody(<< >>),
      PromptBody(TXT_BLANK),
      PromptBody(TXT_SHORT),
      PromptBody(TXT_NINE),
      PromptBody(TXT_TEN),
      PromptBody(TXT_SAMPLE),
      PromptBody(<<" ">> \o Repeat("x", MAX_LENGTH) \o <<"\n">>),
      PromptBody(Repeat("x", MAX_LENGTH + 1)) }

\* The requests of SpecConc: one of each kind of answer, short prompts only.
ConcBodies ==
    { Body(TRUE, Malformed),
      Body(TRUE, JObj({})),
      PromptBody(TXT_SHORT),
      PromptBody(TXT_TEN) }

\* ------------------------------------------------- what the model call does

Returns(t) == [kind |-> "return", text |-> t]
Raises(m)  == [kind |-> "raise",  text |-> m]

TXT_RECOMMENDATION ==
    <<"T","e","s","t"," ","a","r","c","h","i","t","e","c","t","u","r","e"," ","r","e","c","o",
      "m","m","e","n","d","a","t","i","o","n">>
EXC_429 ==
    <<"4","2","9"," ","R","e","s","o","u","r","c","e"," ","h","a","s"," ","b","e","e","n"," ",
      "e","x","h","a","u","s","t","e","d">>
EXC_RATE ==
    <<"R","a","t","e"," ","l","i","m","i","t"," ","e","x","c","e","e","d","e","d">>
EXC_QUOTA ==
    <<"Q","u","o","t","a"," ","e","x","c","e","e","d","e","d"," ","f","o","r"," ","m","e","t",
      "r","i","c">>
EXC_TOO_MANY ==
    <<"T","o","o"," ","M","a","n","y"," ","R","e","q","u","e","s","t","s">>
EXC_KEY_QUOTA ==
    <<"A","P","I"," ","k","e","y"," ","q","u","o","t","a"," ","e","x","c","e","e","d","e","d">>
EXC_API_ERROR ==
    <<"A","P","I"," ","E","r","r","o","r">>
EXC_KEY_INVALID ==
    <<"A","P","I"," ","k","e","y"," ","n","o","t"," ","v","a","l","i","d","."," ","P","l","e",
      "a","s","e"," ","p","a","s","s"," ","a"," ","v","a","l","i","d"," ","A","P","I"," ","k",
      "e","y",".">>

\* model.generate_content(prompt): a response with text, a response whose text
\* is missing or empty, or an exception with some text.
Outcomes ==
    { Returns(TXT_RECOMMENDATION), Returns(None), Returns(<< >>),
      Raises(EXC_429), Raises(EXC_RATE), Raises(EXC_QUOTA), Raises(EXC_TOO_MANY),
      Raises(EXC_KEY_QUOTA), Raises(EXC_API_ERROR), Raises(EXC_KEY_INVALID),
      Raises(<< >>) }

\* The outcomes of SpecConc: two rate-limit texts, two other texts, both returns.
ConcOutcomes ==
    { Returns(TXT_RECOMMENDATION), Returns(None),
      Raises(EXC_429), Raises(EXC_RATE), Raises(EXC_API_ERROR), Raises(EXC_KEY_INVALID) }

\* --------------------------------------------------------------- responses

NoResponse == [code |-> 0, body |-> [status |-> "none"], headers |-> {}]

ErrorResponse(code, msg) ==
    [code |-> code, body |-> [status |-> "error", error |-> msg], headers |-> {}]

SuccessResponse(text) ==
    [code |-> 200, body |-> [status |-> "success", response |-> text], headers |-> {}]

RateLimitResponse ==
    [code |-> 429, body |-> [status |-> "error", error |-> MSG_UNAVAILABLE],
     headers |-> {<<"Retry-After", "60">>}]

\* the except Exception branch of generate()
UnexpectedResponse == ErrorResponse(500, MSG_UNEXPECTED)

\* ------------------------------------------------------------ the Generator

\* (success, text, error, rate_limited), or NoResult while the loop goes on
Result(s, t, e, r) == [success |-> s, text |-> t, error |-> e, rate_limited |-> r]
NoResult == [success |-> FALSE, text |-> None, error |-> None, rate_limited |-> FALSE]

\* is_rate = any(x in lower for x in ["429", "rate", "quota", "too many requests"])
is_rate(msg) ==
    LET lower == Lower(msg)
    IN  \/ Contains(lower, STR_429)
        \/ Contains(lower, STR_RATE)
        \/ Contains(lower, STR_QUOTA)
        \/ Contains(lower, STR_TOO_MANY)

\* delay starting at 2 seconds.
delay_FromTwo(att) == 2 ^ (att + 1)

\* delay = 2 ** attempt
delay(att) == 2 ^ att

\* HasText without the test for the empty string.
HasText_NotNone(t) == t # None

\* bool(getattr(response, 'text', None))
HasText(t) == t # None /\ Len(t) > 0

\* GeneratorEntry without the test for a missing client.
GeneratorEntry_NoClientCheck(demo, mdl) ==
    IF demo THEN Result(TRUE, demo_response, None, FALSE) ELSE NoResult

\* GeneratorEntry with the client tested before the demo flag.
GeneratorEntry_ClientFirst(demo, mdl) ==
    IF ~mdl THEN Result(FALSE, None, ERR_NOT_CONFIGURED, FALSE)
    ELSE IF demo THEN Result(TRUE, demo_response, None, FALSE)
    ELSE NoResult

\* What _generate_with_retry returns before the loop: the canned text in demo
\* mode, the configuration failure without a client, NoResult otherwise.
GeneratorEntry(demo, mdl) ==
    IF demo THEN Result(TRUE, demo_response, None, FALSE)
    ELSE IF ~mdl THEN Result(FALSE, None, ERR_NOT_CONFIGURED, FALSE)
    ELSE NoResult

\* Retries once more than max_retries allows.
Retries_OneMore(msg, att) == is_rate(msg) /\ att <= max_retries

\* Retries for an error of any kind.
Retries_AnyError(msg, att) == att < max_retries

\* Whether the except branch sleeps and calls again.
Retries(msg, att) == is_rate(msg) /\ att < max_retries

\* CallResult with a success that remembers the earlier rate-limit errors.
CallResult_StickyFlag(o, att) ==
    IF o.kind = "return"
    THEN IF HasText(o.text)
         THEN Result(TRUE, o.text, None, att > 0)
         ELSE Result(FALSE, None, ERR_NO_RESPONSE, FALSE)
    ELSE IF Retries(o.text, att)
         THEN NoResult
         ELSE Result(FALSE, None, ERR_PREFIX \o o.text, is_rate(o.text))

\* CallResult with a failure that never carries the rate-limited flag.
CallResult_NoFlag(o, att) ==
    IF o.kind = "return"
    THEN IF HasText(o.text)
         THEN Result(TRUE, o.text, None, FALSE)
         ELSE Result(FALSE, None, ERR_NO_RESPONSE, FALSE)
    ELSE IF Retries(o.text, att)
         THEN NoResult
         ELSE Result(FALSE, None, ERR_PREFIX \o o.text, FALSE)

\* What one pass of the loop body returns for the outcome o of the model
\* call; NoResult when it retries.
CallResult(o, att) ==
    IF o.kind = "return"
    THEN IF HasText(o.text)
         THEN Result(TRUE, o.text, None, FALSE)
         ELSE Result(FALSE, None, ERR_NO_RESPONSE, FALSE)
    ELSE IF Retries(o.text, att)
         THEN NoResult
         ELSE Result(FALSE, None, ERR_PREFIX \o o.text, is_rate(o.text))

\* the return after the loop
FallbackResult(lastError) ==
    Result(FALSE, None,
           ERR_PREFIX \o (IF lastError # None /\ Len(lastError) > 0
                          THEN lastError ELSE ERR_UNKNOWN),
           FALSE)

\* -------------------------------------------------------------- the Handler

\* `not data`
Falsy(d) ==
    \/ d.type = "null"
    \/ d.type = "object" /\ d.fields = {}
    \/ d.type = "string" /\ Len(d.chars) = 0
    \/ d.type = "number" /\ d.num = 0

HasKey(d, k) == \E f \in d.fields : f[1] = k
Get(d, k) == (CHOOSE f \in d.fields : f[1] = k)[2]

\* `'prompt' in data` raises TypeError on a number
InRaises(d) == d.type = "number"
\* `'prompt' in data`: a key of an object, a substring of a string
HasPrompt(d) ==
    \/ d.type = "object" /\ HasKey(d, "prompt")
    \/ d.type = "string" /\ Contains(d.chars, STR_PROMPT)

\* `data['prompt'].strip()` raises unless data is an object and the value a str
StripRaises(d) == d.type # "object" \/ Get(d, "prompt").type # "string"

TooShort(desc) == Len(desc) < MIN_LENGTH
\* TooLong rejecting the maximum length itself.
TooLong_Inclusive(desc) == Len(desc) >= MAX_LENGTH

TooLong(desc) == Len(desc) > MAX_LENGTH

\* The request checks of generate(): the response they return, or NoResponse
\* when the request passes them all.
Validate(b) ==
    IF ~b.is_json THEN ErrorResponse(400, MSG_NOT_JSON)
    ELSE IF b.data.type = "malformed" THEN UnexpectedResponse
    ELSE IF Falsy(b.data) THEN ErrorResponse(400, MSG_MISSING_PROMPT)
    ELSE IF InRaises(b.data) THEN UnexpectedResponse
    ELSE IF ~HasPrompt(b.data) THEN ErrorResponse(400, MSG_MISSING_PROMPT)
    ELSE IF StripRaises(b.data) THEN UnexpectedResponse
    ELSE LET desc == Strip(Get(b.data, "prompt").chars)
         IN  IF Len(desc) = 0 THEN ErrorResponse(400, MSG_EMPTY)
             ELSE IF TooShort(desc) THEN ErrorResponse(400, MSG_TOO_SHORT)
             ELSE IF TooLong(desc) THEN ErrorResponse(400, MSG_TOO_LONG)
             ELSE NoResponse

\* FailureResponse with the failure message sent to the client in the 503.
FailureResponse_Echo(error_message) ==
    IF Contains(error_message, STR_API_KEY)
    THEN ErrorResponse(500, MSG_CONFIG)
    ELSE IF \/ Contains(Lower(error_message), STR_QUOTA)
            \/ Contains(Lower(error_message), STR_RATE)
            \/ Contains(error_message, STR_429)
         THEN RateLimitResponse
         ELSE ErrorResponse(503, error_message)

\* FailureResponse with the rate-limit test before the API-key test.
FailureResponse_RateFirst(error_message) ==
    IF \/ Contains(Lower(error_message), STR_QUOTA)
       \/ Contains(Lower(error_message), STR_RATE)
       \/ Contains(error_message, STR_429)
    THEN RateLimitResponse
    ELSE IF Contains(error_message, STR_API_KEY)
         THEN ErrorResponse(500, MSG_CONFIG)
         ELSE ErrorResponse(503, MSG_UNABLE)

\* FailureResponse with a 429 that has no Retry-After header.
FailureResponse_NoHeader(error_message) ==
    IF Contains(error_message, STR_API_KEY)
    THEN ErrorResponse(500, MSG_CONFIG)
    ELSE IF \/ Contains(Lower(error_message), STR_QUOTA)
            \/ Contains(Lower(error_message), STR_RATE)
            \/ Contains(error_message, STR_429)
         THEN ErrorResponse(429, MSG_UNAVAILABLE)
         ELSE ErrorResponse(503, MSG_UNABLE)

\* The response generate() builds from a failure message.
FailureResponse(error_message) ==
    IF Contains(error_message, STR_API_KEY)
    THEN ErrorResponse(500, MSG_CONFIG)
    ELSE IF \/ Contains(Lower(error_message), STR_QUOTA)
            \/ Contains(Lower(error_message), STR_RATE)
            \/ Contains(error_message, STR_429)
         THEN RateLimitResponse
         ELSE ErrorResponse(503, MSG_UNABLE)

\* The response generate() builds from the Generator's result.
ResultResponse(res) ==
    IF res.success THEN SuccessResponse(res.text) ELSE FailureResponse(res.error)

\* ------------------------------------------------------------- the routes

\* The routes registered when the module is imported by a server or a test:
\* the whole file has run.
RoutesImported == {"/", "/generate", "/healthz"}

\* The routes registered while `python app.py` serves: app.run() in the
\* __main__ guard blocks before the lines after it are run.
RoutesAsMain == {"/", "/generate"}

NoHealth == [code |-> 0, body |-> [status |-> "none"]]

\* healthz() with mdl = (model is not None) and demo = DEMO_MODE
HealthzResponse(mdl, demo) ==
    [code |-> 200,
     body |-> [status |-> "ok", gemini_configured |-> mdl, demo_mode |-> demo]]

\* Flask's answer to a URL without a route
NotFoundResponse == [code |-> 404, body |-> [status |-> "none"]]

\* ------------------------------------------------------------------- state

VARIABLES
    GEMINI_API_KEY,       \* whether the credential is set at startup
    DEMO_MODE,            \* the demo flag
    model,                \* whether the client was built (model is not None)
    routes,               \* the routes registered when the server serves
    health,               \* the last answer to GET /healthz
    pc,                   \* per request: "idle", "calling", "sleeping", "done"
    body,                 \* per request: the request received
    project_description,  \* per request: the trimmed prompt given to the Generator
    attempt,              \* per request: the loop counter
    last_error,           \* per request: text of the last exception
    calls,                \* per request: calls of model.generate_content
    sleeps,               \* per request: calls of time.sleep
    slept,                \* per request: seconds slept in all
    last_outcome,         \* per request: what the last model call did
    rate_errors,          \* per request: calls whose exception had is_rate true
    result,               \* per request: what _generate_with_retry returned
    response              \* per request: the response sent

config == <<GEMINI_API_KEY, DEMO_MODE, model, routes>>
vars == <<GEMINI_API_KEY, DEMO_MODE, model, routes, health, pc, body, project_description, attempt,
          last_error, calls, sleeps, slept, last_outcome, rate_errors, result, response>>

NoBody == Body(FALSE, JNull)
NoOutcome == [kind |-> "none", text |-> None]

\* Module load: the client exists when there is a credential and demo mode is off.
Init ==
    /\ GEMINI_API_KEY \in BOOLEAN
    /\ DEMO_MODE \in BOOLEAN
    /\ model = (GEMINI_API_KEY /\ ~DEMO_MODE)
    /\ routes \in {RoutesImported, RoutesAsMain}
    /\ health = NoHealth
    /\ pc = [r \in Requests |-> "idle"]
    /\ body = [r \in Requests |-> NoBody]
    /\ project_description = [r \in Requests |-> None]
    /\ attempt = [r \in Requests |-> 0]
    /\ last_error = [r \in Requests |-> None]
    /\ calls = [r \in Requests |-> 0]
    /\ sleeps = [r \in Requests |-> 0]
    /\ slept = [r \in Requests |-> 0]
    /\ last_outcome = [r \in Requests |-> NoOutcome]
    /\ rate_errors = [r \in Requests |-> 0]
    /\ result = [r \in Requests |-> NoResult]
    /\ response = [r \in Requests |-> NoResponse]

\* generate() from the arrival of request b up to its first model call, or up
\* to its response when it makes none.
HandleRequest(r, b) ==
    /\ pc[r] = "idle"
    /\ body' = [body EXCEPT ![r] = b]
    /\ LET v == Validate(b)
           e == GeneratorEntry(DEMO_MODE, model)
       IN  IF v # NoResponse
           THEN /\ response' = [response EXCEPT ![r] = v]
                /\ pc' = [pc EXCEPT ![r] = "done"]
                /\ UNCHANGED <<project_description, result>>
           ELSE /\ project_description' =
                       [project_description EXCEPT ![r] = Strip(Get(b.data, "prompt").chars)]
                /\ IF e # NoResult
                   THEN /\ result' = [result EXCEPT ![r] = e]
                        /\ response' = [response EXCEPT ![r] = ResultResponse(e)]
                        /\ pc' = [pc EXCEPT ![r] = "done"]
                   ELSE /\ pc' = [pc EXCEPT ![r] = "calling"]
                        /\ UNCHANGED <<result, response>>
    /\ UNCHANGED <<config, health, attempt, last_error, calls, sleeps, slept, last_outcome,
                   rate_errors>>

\* One call of model.generate_content with outcome o, and what the loop body
\* does with it: return (and generate() answers) or go to sleep.
ModelCall(r, o) ==
    /\ pc[r] = "calling"
    /\ calls' = [calls EXCEPT ![r] = @ + 1]
    /\ last_outcome' = [last_outcome EXCEPT ![r] = o]
    /\ rate_errors' = IF o.kind = "raise" /\ is_rate(o.text)
                      THEN [rate_errors EXCEPT ![r] = @ + 1]
                      ELSE rate_errors
    /\ last_error' = IF o.kind = "raise" THEN [last_error EXCEPT ![r] = o.text]
                     ELSE last_error
    /\ LET res == CallResult(o, attempt[r])
       IN  IF res = NoResult
           THEN /\ pc' = [pc EXCEPT ![r] = "sleeping"]
                /\ UNCHANGED <<result, response>>
           ELSE /\ result' = [result EXCEPT ![r] = res]
                /\ response' = [response EXCEPT ![r] = ResultResponse(res)]
                /\ pc' = [pc EXCEPT ![r] = "done"]
    /\ UNCHANGED <<config, health, body, project_description, attempt, sleeps, slept>>

\* Sleep with one attempt counter for the whole module.
Sleep_SharedAttempt(r) ==
    /\ pc[r] = "sleeping"
    /\ sleeps' = [sleeps EXCEPT ![r] = @ + 1]
    /\ slept' = [slept EXCEPT ![r] = @ + delay(attempt[r])]
    /\ attempt' = [q \in Requests |-> attempt[q] + 1]
    /\ pc' = [pc EXCEPT ![r] = "calling"]
    /\ UNCHANGED <<config, health, body, project_description, last_error, calls,
                   last_outcome, rate_errors, result, response>>

\* Sleep without `attempt += 1`.
Sleep_NoIncrement(r) ==
    /\ pc[r] = "sleeping"
    /\ sleeps' = [sleeps EXCEPT ![r] = @ + 1]
    /\ slept' = [slept EXCEPT ![r] = @ + delay(attempt[r])]
    /\ pc' = [pc EXCEPT ![r] = "calling"]
    /\ UNCHANGED <<config, health, body, project_description, attempt, last_error, calls,
                   last_outcome, rate_errors, result, response>>

\* time.sleep(delay); attempt += 1; continue
Sleep(r) ==
    /\ pc[r] = "sleeping"
    /\ sleeps' = [sleeps EXCEPT ![r] = @ + 1]
    /\ slept' = [slept EXCEPT ![r] = @ + delay(attempt[r])]
    /\ attempt' = [attempt EXCEPT ![r] = @ + 1]
    /\ IF attempt[r] + 1 <= max_retries
       THEN /\ pc' = [pc EXCEPT ![r] = "calling"]
            /\ UNCHANGED <<result, response>>
       ELSE LET res == FallbackResult(last_error[r])
            IN  /\ result' = [result EXCEPT ![r] = res]
                /\ response' = [response EXCEPT ![r] = ResultResponse(res)]
                /\ pc' = [pc EXCEPT ![r] = "done"]
    /\ UNCHANGED <<config, health, body, project_description, last_error, calls, last_outcome,
                   rate_errors>>

\* The response is sent; everything local to the request is gone.
Complete(r) ==
    /\ pc[r] = "done"
    /\ pc' = [pc EXCEPT ![r] = "idle"]
    /\ body' = [body EXCEPT ![r] = NoBody]
    /\ project_description' = [project_description EXCEPT ![r] = None]
    /\ attempt' = [attempt EXCEPT ![r] = 0]
    /\ last_error' = [last_error EXCEPT ![r] = None]
    /\ calls' = [calls EXCEPT ![r] = 0]
    /\ sleeps' = [sleeps EXCEPT ![r] = 0]
    /\ slept' = [slept EXCEPT ![r] = 0]
    /\ last_outcome' = [last_outcome EXCEPT ![r] = NoOutcome]
    /\ rate_errors' = [rate_errors EXCEPT ![r] = 0]
    /\ result' = [result EXCEPT ![r] = NoResult]
    /\ response' = [response EXCEPT ![r] = NoResponse]
    /\ UNCHANGED <<config, health>>

\* GET /healthz: the status read when the route is registered, 404 when not.
Healthz ==
    /\ health' = IF "/healthz" \in routes
                 THEN HealthzResponse(model, DEMO_MODE)
                 ELSE NotFoundResponse
    /\ UNCHANGED <<config, pc, body, project_description, attempt, last_error, calls,
                   sleeps, slept, last_outcome, rate_errors, result, response>>

\* One request at a time.
Next ==
    \/ \E b \in Bodies : HandleRequest(1, b)
    \/ \E o \in Outcomes : ModelCall(1, o)
    \/ Sleep(1)
    \/ Complete(1)
    \/ Healthz

Spec == Init /\ [][Next]_vars

\* The same, with a thread that is never starved: a model call that was made
\* returns or raises, and a sleep ends.
SpecFair ==
    /\ Spec
    /\ WF_vars(\E o \in Outcomes : ModelCall(1, o))
    /\ WF_vars(Sleep(1))

\* NumRequests requests in flight, interleaved at every model call and sleep.
NextConc ==
    \E r \in Requests :
        \/ \E b \in ConcBodies : HandleRequest(r, b)
        \/ \E o \in ConcOutcomes : ModelCall(r, o)
        \/ Sleep(r)
        \/ Complete(r)

\* The module imported by the server that runs the requests.
InitConc == Init /\ routes = RoutesImported

SpecConc == InitConc /\ [][NextConc]_vars

\* ------------------------------------------------------------------ claims

\* The words the claims look for in a response or a failure message.
WORDS_CONFIG_ERROR ==
    <<"c","o","n","f","i","g","u","r","a","t","i","o","n"," ","e","r","r","o","r">>
WORDS_NOT_CONFIGURED ==
    <<"n","o","t"," ","c","o","n","f","i","g","u","r","e","d">>
WORDS_NO_RESPONSE ==
    <<"N","o"," ","r","e","s","p","o","n","s","e"," ","g","e","n","e","r","a","t","e","d">>
WORDS_UNABLE ==
    <<"U","n","a","b","l","e"," ","t","o"," ","g","e","n","e","r","a","t","e">>
WORDS_EMPTY ==
    <<"c","a","n","n","o","t"," ","b","e"," ","e","m","p","t","y">>
WORDS_AT_LEAST ==
    <<"a","t"," ","l","e","a","s","t"," ","1","0"," ","c","h","a","r","a","c","t","e","r","s">>
WORDS_LESS_THAN ==
    <<"l","e","s","s"," ","t","h","a","n"," ","5","0","0","0"," ","c","h","a","r","a","c","t",
      "e","r","s">>
WORDS_HEADING ==
    <<"\n","#"," ","G","o","o","g","l","e"," ","C","l","o","u","d"," ","A","r","c","h","i","t",
      "e","c","t","u","r","e"," ","R","e","c","o","m","m","e","n","d","a","t","i","o","n","\n">>

\* The request is a JSON object, sent as JSON, whose prompt is a string.
StringPrompt(b) ==
    /\ b.is_json
    /\ b.data.type = "object"
    /\ \E f \in b.data.fields : f[1] = "prompt" /\ f[2].type = "string"

\* The whitespace-trimmed prompt of such a request.
Trimmed(b) == Strip((CHOOSE f \in b.data.fields : f[1] = "prompt")[2].chars)

\* A valid prompt: a string of 10 to 5000 characters once trimmed.
ValidPrompt(b) == StringPrompt(b) /\ Len(Trimmed(b)) >= 10 /\ Len(Trimmed(b)) <= 5000

\* The text of an error contains one of the four rate-limit substrings.
RateLimitedText(msg) ==
    \E w \in {STR_429, STR_RATE, STR_QUOTA, STR_TOO_MANY} : Contains(Lower(msg), w)

\* A configured client and demo mode off.
Live == model /\ ~DEMO_MODE

Answered(r) == pc[r] = "done"
HasRetryAfter(r) == <<"Retry-After", "60">> \in response[r].headers
ErrorSays(r, words) ==
    /\ response[r].body.status = "error"
    /\ Contains(response[r].body.error, words)

\* C1 (as claimed): with a valid prompt, a configured client and demo mode
\* off, when every model call so far raised an error classified as
\* rate-limited, the invocation goes on until the 3rd call, and after the 3rd
\* the response is 429 with Retry-After: 60.
C1_RateLimitedEveryCall ==
    \A r \in Requests :
        (Live /\ ValidPrompt(body[r]) /\ calls[r] >= 1 /\ rate_errors[r] = calls[r])
        => /\ calls[r] <= 3
           /\ calls[r] < 3 => pc[r] \in {"sleeping", "calling"}
           /\ calls[r] = 3 => /\ Answered(r)
                              /\ response[r].code = 429
                              /\ HasRetryAfter(r)

\* C2 (as claimed): when the first model call returns a response without
\* usable text, the invocation is over after that one call with the failure
\* "No response generated...", nothing slept, and the response is 503
\* "Unable to generate ...".
C2_NoTextGives503 ==
    \A r \in Requests :
        (/\ Live /\ ValidPrompt(body[r]) /\ calls[r] = 1
         /\ last_outcome[r].kind = "return" /\ ~HasText(last_outcome[r].text))
        => /\ Answered(r)
           /\ sleeps[r] = 0
           /\ Contains(result[r].error, WORDS_NO_RESPONSE)
           /\ response[r].code = 503
           /\ ErrorSays(r, WORDS_UNABLE)

\* The first model call raised an exception that is not rate-limited.
FirstCallOtherError(r) ==
    /\ Live /\ ValidPrompt(body[r]) /\ calls[r] = 1
    /\ last_outcome[r].kind = "raise" /\ ~RateLimitedText(last_outcome[r].text)

\* C3 (as claimed): when the first model call raises an exception whose text
\* has none of the rate-limit substrings, the invocation is over after that
\* one call, nothing slept, and the response is 503 "Unable to generate".
C3_OtherErrorGives503 ==
    \A r \in Requests :
        FirstCallOtherError(r)
        => /\ Answered(r)
           /\ sleeps[r] = 0
           /\ response[r].code = 503
           /\ ErrorSays(r, WORDS_UNABLE)

\* C3 (amended): when the first model call raises an exception whose text has
\* none of the rate-limit substrings, the invocation is over after that one
\* call and nothing slept; the response is 500 "Service configuration error"
\* when the text contains "API key", and 503 "Unable to generate" otherwise.
C3_OtherErrorNoRetry ==
    \A r \in Requests :
        FirstCallOtherError(r)
        => /\ Answered(r)
           /\ sleeps[r] = 0
           /\ IF Contains(last_outcome[r].text, STR_API_KEY)
              THEN response[r].code = 500 /\ response[r].body.error = MSG_CONFIG
              ELSE response[r].code = 503 /\ ErrorSays(r, WORDS_UNABLE)

\* C3 witness: both cases, each after exactly one call.
C3_Witness ==
    \E r \in Requests :
        /\ FirstCallOtherError(r) /\ Answered(r)
        /\ last_outcome[r].text = EXC_API_ERROR
        /\ response[r].code = 503

\* C4: without a credential and with demo mode off, a request with a valid
\* prompt is answered 500 "configuration error" from the failure "... not
\* configured ...", and no model call and no sleep is ever made.
C4_Unconfigured ==
    \A r \in Requests :
        (~GEMINI_API_KEY /\ ~DEMO_MODE)
        => /\ calls[r] = 0 /\ sleeps[r] = 0
           /\ pc[r] \in {"idle", "done"}
           /\ (Answered(r) /\ ValidPrompt(body[r]))
              => /\ response[r].code = 500
                 /\ ErrorSays(r, WORDS_CONFIG_ERROR)
                 /\ ~result[r].success
                 /\ Contains(result[r].error, WORDS_NOT_CONFIGURED)

C4_Witness ==
    \E r \in Requests :
        /\ ~GEMINI_API_KEY /\ ~DEMO_MODE
        /\ Answered(r) /\ ValidPrompt(body[r])
        /\ response[r].code = 500

\* C5: for a JSON object whose prompt is a string, the trimmed length L alone
\* decides: L = 0 is 400 "cannot be empty", 1..9 is 400 "at least 10
\* characters", above 5000 is 400 "less than 5000 characters", and 10..5000
\* passes with the trimmed value given to the Generator; a rejected request
\* makes no model call.
C5_LengthDecides ==
    \A r \in Requests :
        (pc[r] # "idle" /\ StringPrompt(body[r]))
        => LET L == Len(Trimmed(body[r]))
           IN  /\ L = 0 => response[r].code = 400 /\ ErrorSays(r, WORDS_EMPTY)
               /\ (L >= 1 /\ L <= 9) =>
                      response[r].code = 400 /\ ErrorSays(r, WORDS_AT_LEAST)
               /\ L > 5000 => response[r].code = 400 /\ ErrorSays(r, WORDS_LESS_THAN)
               /\ (L >= 10 /\ L <= 5000) =>
                      /\ response[r].code # 400
                      /\ project_description[r] = Trimmed(body[r])
               /\ response[r].code = 400 =>
                      /\ Answered(r) /\ calls[r] = 0
                      /\ project_description[r] = None

\* C5 witness: a prompt of more than 5000 characters whose trimmed length is
\* exactly 5000 has passed and is with the Generator.
C5_Witness ==
    \E r \in Requests :
        /\ StringPrompt(body[r])
        /\ Len(Get(body[r].data, "prompt").chars) > 5000
        /\ Len(project_description[r]) = 5000
        /\ pc[r] = "calling"

\* C6 (as claimed): a body that is not valid JSON, whatever content type it
\* declares, is answered 400 "Request must be JSON format"; a JSON object
\* without a prompt key, sent as JSON, is answered 400 "Missing required field:
\* prompt"; neither makes a model call.
C6_MalformedGives400 ==
    \A r \in Requests :
        Answered(r)
        => /\ body[r].data.type = "malformed"
              => /\ response[r].code = 400
                 /\ response[r].body.error = MSG_NOT_JSON
                 /\ calls[r] = 0
           /\ (/\ body[r].is_json
               /\ body[r].data.type = "object"
               /\ ~\E f \in body[r].data.fields : f[1] = "prompt")
              => /\ response[r].code = 400
                 /\ response[r].body.error = MSG_MISSING_PROMPT
                 /\ calls[r] = 0

\* C7: in demo mode a request with a valid prompt is answered 200 "success"
\* with the one canned text, which starts with the heading, whatever the prompt
\* and whether or not there is a credential; no model call, no sleep.
C7_DemoMode ==
    \A r \in Requests :
        DEMO_MODE
        => /\ calls[r] = 0 /\ sleeps[r] = 0
           /\ (pc[r] # "idle" /\ ValidPrompt(body[r]))
              => /\ Answered(r)
                 /\ response[r].code = 200
                 /\ response[r].body.status = "success"
                 /\ response[r].body.response = demo_response
                 /\ SubSeq(response[r].body.response, 1, Len(WORDS_HEADING))
                        = WORDS_HEADING

C7_Witness ==
    \E r \in Requests :
        /\ DEMO_MODE /\ ~GEMINI_API_KEY
        /\ Answered(r) /\ ValidPrompt(body[r])
        /\ Len(project_description[r]) = 5000
        /\ response[r].code = 200

\* C8: a 200 response has status "success" and a non-empty response text,
\* which is the text returned by the last model call (the canned text in demo
\* mode); a model response with empty or missing text never gives a 200.
C8_SuccessText ==
    \A r \in Requests :
        /\ response[r].code = 200
           => /\ response[r].body.status = "success"
              /\ response[r].body.response # None
              /\ Len(response[r].body.response) > 0
              /\ IF DEMO_MODE
                 THEN response[r].body.response = demo_response
                 ELSE /\ last_outcome[r].kind = "return"
                      /\ response[r].body.response = last_outcome[r].text
        /\ (/\ Answered(r) /\ last_outcome[r].kind = "return"
            /\ last_outcome[r].text \in {None, << >>})
           => response[r].code # 200

\* C8 witness: a 200 whose text came from the 3rd model call.
C8_Witness ==
    \E r \in Requests :
        /\ response[r].code = 200 /\ ~DEMO_MODE
        /\ calls[r] = 3
        /\ response[r].body.response = TXT_RECOMMENDATION

\* An error response that does not come from validation.
ServerError(r) == Answered(r) /\ response[r].code \in {429, 500, 503}

C10_ResponseShape ==
    \A r \in Requests :
        Answered(r)
        => /\ response[r].code \in {200, 400, 429, 500, 503}
           /\ IF response[r].code = 200
              THEN /\ DOMAIN response[r].body = {"status", "response"}
                   /\ response[r].body.status = "success"
              ELSE /\ DOMAIN response[r].body = {"status", "error"}
                   /\ response[r].body.status = "error"
           /\ HasRetryAfter(r) <=> response[r].code = 429
           /\ response[r].code # 429 => response[r].headers = {}

C10_Witness ==
    \E r \in Requests :
        /\ Answered(r) /\ response[r].code = 429
        /\ HasRetryAfter(r)
        /\ calls[r] = 3

\* The Generator is running for request r.
InGenerator(r) == pc[r] \in {"calling", "sleeping"}

\* What is left of the loop: two steps for each attempt still allowed, one
\* less once the call of this attempt is made.
Remaining(r) ==
    2 * (max_retries - attempt[r]) + (IF pc[r] = "calling" THEN 1 ELSE 0)

\* A terminal outcome: success without error, or failure with an error.
Terminal(res) ==
    \/ res.success /\ res.text # None /\ res.error = None
    \/ ~res.success /\ res.text = None /\ res.error # None

\* C11: every invocation of the Generator ends, whatever the model calls do:
\* each step of the loop brings it nearer its end, and under fair scheduling
\* a running invocation is eventually answered; it ends in one terminal
\* outcome, which is not replaced afterwards; an exception of a model call
\* becomes a failure and never the Handler's "unexpected error".
C11_Terminates ==
    /\ [](\A r \in Requests :
             /\ InGenerator(r) => result[r] = NoResult /\ Remaining(r) >= 0
             /\ (Answered(r) /\ ValidPrompt(body[r]))
                => /\ Terminal(result[r])
                   /\ response[r] # UnexpectedResponse)
    /\ [][\A r \in Requests :
             /\ (InGenerator(r) /\ pc'[r] # pc[r])
                => \/ pc'[r] = "done"
                   \/ InGenerator(r)' /\ Remaining(r)' < Remaining(r)
             /\ result[r] # NoResult
                => result'[r] = result[r] \/ pc'[r] = "idle"]_vars
    /\ \A r \in Requests : InGenerator(r) ~> Answered(r)

\* C11 witness: an invocation that ended after an exception on each of 3 calls.
C11_Witness ==
    \E r \in Requests :
        /\ Answered(r) /\ calls[r] = 3
        /\ last_outcome[r].kind = "raise"
        /\ Terminal(result[r])

\* C12 (as claimed): GET /healthz is always answered 200 with status "ok",
\* gemini_configured true exactly when there was a credential and demo mode
\* was off, demo_mode equal to the demo flag, and never both true.
C12_HealthzOk ==
    health # NoHealth
    => /\ health.code = 200
       /\ health.body.status = "ok"
       /\ health.body.gemini_configured = (GEMINI_API_KEY /\ ~DEMO_MODE)
       /\ health.body.demo_mode = DEMO_MODE
       /\ ~(health.body.gemini_configured /\ health.body.demo_mode)

\* The last model call raised an error classified as rate-limited.
LastCallRateLimited(r) ==
    /\ calls[r] >= 1
    /\ last_outcome[r].kind = "raise"
    /\ RateLimitedText(last_outcome[r].text)

\* C13: a failure message containing "API key" is answered 500 "Service
\* configuration error", also when it contains a rate-limit word and the
\* Generator retried on it; a 429 is given only to a message without "API key".
C13_ApiKeyFirst ==
    \A r \in Requests :
        (Answered(r) /\ result[r].error # None)
        => /\ Contains(result[r].error, STR_API_KEY)
              => /\ response[r].code = 500
                 /\ response[r].body.error = MSG_CONFIG
                 /\ response[r].headers = {}
           /\ response[r].code = 429 => ~Contains(result[r].error, STR_API_KEY)

\* C13 witness: "API key quota exceeded" on each of 3 calls, answered 500.
C13_Witness ==
    \E r \in Requests :
        /\ Answered(r) /\ calls[r] = 3 /\ rate_errors[r] = 3
        /\ result[r].rate_limited
        /\ last_error[r] = EXC_KEY_QUOTA
        /\ response[r].code = 500

\* C14: one invocation makes at most 3 model calls and at most 2 sleeps; the
\* attempt counter stays in 0..2 and, within an invocation, never decreases.
C14_BoundedAttempts ==
    /\ [](\A r \in Requests :
             /\ calls[r] <= 3
             /\ sleeps[r] <= 2
             /\ attempt[r] \in 0..2)
    /\ [][\A r \in Requests : pc'[r] # "idle" => attempt'[r] >= attempt[r]]_vars

C14_Witness ==
    \E r \in Requests : calls[r] = 3 /\ sleeps[r] = 2 /\ attempt[r] = 2

\* C15: a model call after the first is made only when the call before it
\* raised a rate-limited error; a returned response or another exception, at
\* any attempt, ends the invocation with no further call and no further sleep.
C15_OnlyRateLimitedRetried ==
    \A r \in Requests :
        /\ (InGenerator(r) /\ calls[r] >= 1) => LastCallRateLimited(r)
        /\ (calls[r] >= 1 /\ ~LastCallRateLimited(r))
           => /\ Answered(r)
              /\ sleeps[r] = calls[r] - 1
              /\ rate_errors[r] = calls[r] - 1

\* C15 witness: the 2nd call raised an error that is not rate-limited.
C15_Witness ==
    \E r \in Requests :
        /\ Answered(r) /\ calls[r] = 2 /\ sleeps[r] = 1
        /\ last_outcome[r] = Raises(EXC_API_ERROR)

\* C16: rate-limited errors on the first k calls (k = 1 or 2) and a text on
\* call k+1 give success with that text, no error, rate-limited flag false,
\* and a 200 response.
C16_Recovery ==
    \A r \in Requests : \A k \in {1, 2} :
        (/\ calls[r] = k + 1 /\ rate_errors[r] = k
         /\ last_outcome[r].kind = "return"
         /\ last_outcome[r].text \notin {None, << >>})
        => /\ Answered(r)
           /\ result[r] = [success |-> TRUE, text |-> last_outcome[r].text,
                           error |-> None, rate_limited |-> FALSE]
           /\ response[r].code = 200
           /\ response[r].body.response = last_outcome[r].text

C16_Witness ==
    \E r \in Requests :
        /\ calls[r] = 3 /\ rate_errors[r] = 2
        /\ last_outcome[r] = Returns(TXT_RECOMMENDATION)
        /\ response[r].code = 200

\* C17: the n-th sleep lasts 2^(n-1) seconds, so the seconds slept are 0, 1
\* or 3; there is one sleep before each call after the first, after a
\* rate-limited error, none before the first call and none after the last.
C17_Backoff ==
    \A r \in Requests :
        /\ sleeps[r] \in 0..2
        /\ slept[r] = (CASE sleeps[r] = 0 -> 0 [] sleeps[r] = 1 -> 1 [] sleeps[r] = 2 -> 3)
        /\ calls[r] = 0 => sleeps[r] = 0
        /\ pc[r] = "calling" => sleeps[r] = calls[r]
        /\ pc[r] = "sleeping" => sleeps[r] = calls[r] - 1 /\ LastCallRateLimited(r)
        /\ (Answered(r) /\ calls[r] >= 1) => sleeps[r] = calls[r] - 1

C17_Witness ==
    \E r \in Requests : Answered(r) /\ calls[r] = 3 /\ sleeps[r] = 2 /\ slept[r] = 3

\* C18: a Generator outcome is success with a non-empty text, no error and
\* the flag false, or failure with no text and a non-empty message; the flag
\* of a failure is true exactly when the last model call raised a rate-limited
\* error, which is then the 3rd call.
C18_OutcomeShape ==
    \A r \in Requests :
        result[r] # NoResult
        => IF result[r].success
           THEN /\ result[r].text # None /\ Len(result[r].text) > 0
                /\ result[r].error = None
                /\ ~result[r].rate_limited
           ELSE /\ result[r].text = None
                /\ result[r].error # None /\ Len(result[r].error) > 0
                /\ result[r].rate_limited <=> LastCallRateLimited(r)
                /\ result[r].rate_limited => calls[r] = 3

C18_Witness ==
    \E r \in Requests :
        /\ ~result[r].success /\ result[r].rate_limited /\ calls[r] = 3

\* Everything local to request r.
Locals(r) ==
    <<pc[r], body[r], project_description[r], attempt[r], last_error[r], calls[r],
      sleeps[r], slept[r], last_outcome[r], rate_errors[r], result[r], response[r]>>

\* C19: with requests interleaved, a step changes what is local to one
\* request only and never the configuration; each request counts its own
\* attempts, up to 3 calls; and two answered requests with the same prompt
\* and the same model call results have the same outcome and response.
C19_NoInterference ==
    /\ [](\A r1, r2 \in Requests :
             /\ calls[r1] <= 3 /\ attempt[r1] <= 2
             /\ pc[r1] = "calling" => attempt[r1] = calls[r1]
             /\ (/\ Answered(r1) /\ Answered(r2)
                 /\ body[r1] = body[r2]
                 /\ calls[r1] = calls[r2]
                 /\ last_outcome[r1] = last_outcome[r2])
                => result[r1] = result[r2] /\ response[r1] = response[r2])
    /\ [][/\ UNCHANGED config
          /\ \A r1, r2 \in Requests :
                 (r1 # r2 /\ Locals(r1)' # Locals(r1)) => Locals(r2)' = Locals(r2)]_vars

\* C19 witness: two requests in flight, each at its own 3rd call.
C19_Witness ==
    \E r1, r2 \in Requests :
        /\ r1 # r2
        /\ pc[r1] = "calling" /\ attempt[r1] = 2 /\ calls[r1] = 2
        /\ Answered(r2) /\ calls[r2] = 3 /\ attempt[r2] = 2
        /\ last_error[r1] # last_error[r2]

====
